---- MODULE Spec2Model ----
(***************************************************************************)
(* A model of the cs290 / scalable_admin administrative utility:          *)
(*   src/cs290.py                        AWS, CFTemplate, GitHub, tokens   *)
(*   src/scalable_admin/command_line.py  clean_team_names, dispatcher      *)
(*                                                                         *)
(* The program is single threaded.  One command-line invocation runs one   *)
(* operation; pc is the position inside the running operation and "idle"   *)
(* between invocations.  Every AWS.op call is one step, answered by the    *)
(* account either according to its state or with a transient failure.     *)
(***************************************************************************)
EXTENDS Integers, Sequences, FiniteSets, TLC

VARIABLES
    \* ---- the AWS account (external state the calls act on)
    acct,        \* record of the IAM / EC2 resources, see EmptyAccount
    pemFiles,    \* teams for which a <team>.pem file exists in the cwd
    \* ---- the running AWS operation
    pc,          \* position in the running operation, "idle" between runs
    cmd,         \* the operation that runs, or ran last
    team,        \* the team argument of the running operation
    trace,       \* the API calls issued so far by this run, in order
    ret,         \* what the last AWS.op call returned: "data" or "False"
    printed,     \* what the last AWS.op call printed
    exit,        \* how the last run ended
    created,     \* truthiness of the CreateUser result of this run
    wrotePem,    \* this run wrote the team's .pem file
    keysLeft,    \* purge: AccessKeyMetadata still to iterate
    stacks,      \* cleanup: StackSummaries returned by ListStacks
    idx,         \* cleanup: index of the next stack of the loop
    now,         \* cleanup: datetime.now(UTC()) taken before ListStacks
    \* ---- history of the runs (not program state)
    failed,      \* some call of this run answered another status than 200
    faulted,     \* some call of this run failed although the account accepts it
    configured,  \* teams configured by a run the service answered by the account's state,
                 \* and not purged since
    fromConfigured, \* this run started with its team in configured
    \* ---- clean_team_names
    teamArg,     \* args['TEAM']: None, a string or a list of strings
    teamIn,      \* args['TEAM'] as docopt parsed it (history)
    teamPrev,    \* args['TEAM'] before the last call (history)
    cleanCalls,  \* calls of clean_team_names made on args so far
    \* ---- scalable_admin main
    mainPc,      \* "idle", "for" (in the loop over commands) or "done"
    args,        \* the sub-command keys docopt set to True
    visited,     \* the command names the loop has gone through
    invoked,     \* the handlers called, in order
    handlerRet,  \* what the last handler called returned
    mainResult,  \* what main returned or raised
    \* ---- CFTemplate
    heap,        \* the dictionaries of the process, by identity: those of
                 \* the class attributes and those of the instances
    cf,          \* the CFTemplate instance at hand, or NoInstance
    own,         \* per instance, what add_parameter and add_output calls
                 \* from outside generate added to it (history)
    docs,        \* the documents generate printed in this process, in order
    \* ---- the token caches
    ghFile,      \* ~/.config/github_creds: NoFile or its characters
    ptFile,      \* ~/.config/pivotaltracker_token: NoFile or its characters
    ghReturned,  \* what the last get_github_token call returned
    ptReturned,  \* what the last get_pivotaltracker_token call returned
    authorized,  \* the authorizations GitHub granted, in order (history)
    prompted,    \* the tokens typed at the PivotalTracker prompt (history)
    tokenCalls,  \* calls of the two functions so far
    \* ---- GitHub and configure_github_team
    github,      \* the organization on GitHub, see GithubStates
    ghPc,        \* position in configure_github_team, "idle" between runs
    ghTeam,      \* the local team: "unset", "None" or "Team"
    ghRepo,      \* the local repo: "unset", "None" or "Repository"
    ghLog,       \* the creating calls of this run, in order
    ghFailed,    \* a GitHub call of this run failed
    ghExit,      \* how the last run ended
    ghMade,      \* how many times each thing was created on GitHub (history)
    ghRuns,      \* runs of configure_github_team so far
    \* ---- cmd_cftemplate_update_all
    updPc,       \* "idle", "for" (in the loop over range(8)) or "done"
    noTest,      \* args['--no-test']
    updI,        \* the loop variable i
    updMade,     \* CFTemplate instances constructed by this run
    updCalls,    \* the generate_stack calls of this run, in order
    updResult    \* what the command returned

awsVars == <<acct, pemFiles, pc, cmd, team, trace, ret, printed, exit, created,
             wrotePem, keysLeft, stacks, idx, now, failed, faulted, configured,
             fromConfigured>>

namesVars == <<teamArg, teamIn, teamPrev, cleanCalls>>

mainVars == <<mainPc, args, visited, invoked, handlerRet, mainResult>>

tmplVars == <<heap, cf, own, docs>>

tokenVars == <<ghFile, ptFile, ghReturned, ptReturned, authorized, prompted,
               tokenCalls>>

ghVars == <<github, ghPc, ghTeam, ghRepo, ghLog, ghFailed, ghExit, ghMade,
            ghRuns>>

updVars == <<updPc, noTest, updI, updMade, updCalls, updResult>>

vars == <<awsVars, namesVars, mainVars, tmplVars, tokenVars, ghVars, updVars>>

\* What the actions of one part of the program leave alone.
AwsFrame ==
    UNCHANGED <<namesVars, mainVars, tmplVars, tokenVars, ghVars, updVars>>
MainFrame == UNCHANGED <<awsVars, tmplVars, tokenVars, ghVars, updVars>>
TemplateFrame ==
    UNCHANGED <<awsVars, namesVars, mainVars, tokenVars, ghVars, updVars>>
TokenFrame ==
    UNCHANGED <<awsVars, namesVars, mainVars, tmplVars, ghVars, updVars>>
GithubFrame == UNCHANGED <<awsVars, namesVars, mainVars, tmplVars, updVars>>
UpdateAllFrame ==
    UNCHANGED <<awsVars, namesVars, mainVars, tmplVars, tokenVars, ghVars>>

\* ------------------------------------------------------------------ AWS
Teams == {"Gradr"}
GROUP == "cs290"
\* The ingress rules of configure: the three open ports, in the order of the
\* loop, and the rule that lets the group's instances talk to each other.
Ports == <<"tcp/22", "tcp/80", "tcp/443">>
SelfRule == "all/self"
Rules == {Ports[i] : i \in 1..Len(Ports)} \cup {SelfRule}
\* The access key ids IAM hands out to one user, in order (two per user).
KeyIds == <<"AKIA1", "AKIA2">>
NoArg == "-"

EmptyAccount ==
    [group |-> FALSE, groupPolicy |-> FALSE,
     users |-> {}, logins |-> {}, keys |-> {}, members |-> {},
     userPolicies |-> {}, keyPairs |-> {}, sgs |-> {}, rules |-> {}]

KeysOf(a, t) == {k \in a.keys : k[1] = t}

\* A key id the user does not have yet.
NewKeyId(a, t) == KeyIds[Cardinality(KeysOf(a, t)) + 1]

\* Whether the account accepts the call (answers 200) in state a.
Accepts(operation, t, arg, a) ==
    CASE operation = "CreateGroup" -> ~a.group
      [] operation = "PutGroupPolicy" -> a.group
      [] operation = "CreateUser" -> t \notin a.users
      [] operation = "CreateLoginProfile" -> t \in a.users /\ t \notin a.logins
      [] operation = "CreateAccessKey" ->
            t \in a.users /\ Cardinality(KeysOf(a, t)) < Len(KeyIds)
      [] operation = "CreateKeyPair" -> t \notin a.keyPairs
      [] operation = "AddUserToGroup" -> a.group /\ t \in a.users
      [] operation = "CreateSecurityGroup" -> t \notin a.sgs
      [] operation = "AuthorizeSecurityGroupIngress" ->
            t \in a.sgs /\ <<t, arg>> \notin a.rules
      [] operation = "PutUserPolicy" -> t \in a.users
      [] operation = "DeleteLoginProfile" -> t \in a.logins
      [] operation = "DeleteUserPolicy" -> t \in a.userPolicies
      [] operation = "ListAccessKeys" -> t \in a.users
      [] operation = "DeleteAccessKey" -> <<t, arg>> \in a.keys
      [] operation = "RemoveUserFromGroup" -> t \in a.members
      [] operation = "DeleteUser" ->
            /\ t \in a.users
            /\ t \notin a.logins
            /\ t \notin a.userPolicies
            /\ t \notin a.members
            /\ KeysOf(a, t) = {}
      [] operation = "DeleteKeyPair" -> TRUE
      [] operation = "DeleteSecurityGroup" -> t \in a.sgs
      [] OTHER -> TRUE

\* The account after an accepted call.
Effect(operation, t, arg, a) ==
    CASE operation = "CreateGroup" -> [a EXCEPT !.group = TRUE]
      [] operation = "PutGroupPolicy" -> [a EXCEPT !.groupPolicy = TRUE]
      [] operation = "CreateUser" -> [a EXCEPT !.users = @ \cup {t}]
      [] operation = "CreateLoginProfile" -> [a EXCEPT !.logins = @ \cup {t}]
      [] operation = "CreateAccessKey" ->
            [a EXCEPT !.keys = @ \cup {<<t, NewKeyId(a, t)>>}]
      [] operation = "CreateKeyPair" -> [a EXCEPT !.keyPairs = @ \cup {t}]
      [] operation = "AddUserToGroup" -> [a EXCEPT !.members = @ \cup {t}]
      [] operation = "CreateSecurityGroup" -> [a EXCEPT !.sgs = @ \cup {t}]
      [] operation = "AuthorizeSecurityGroupIngress" ->
            [a EXCEPT !.rules = @ \cup {<<t, arg>>}]
      [] operation = "PutUserPolicy" ->
            [a EXCEPT !.userPolicies = @ \cup {t}]
      [] operation = "DeleteLoginProfile" -> [a EXCEPT !.logins = @ \ {t}]
      [] operation = "DeleteUserPolicy" ->
            [a EXCEPT !.userPolicies = @ \ {t}]
      [] operation = "DeleteAccessKey" -> [a EXCEPT !.keys = @ \ {<<t, arg>>}]
      [] operation = "RemoveUserFromGroup" -> [a EXCEPT !.members = @ \ {t}]
      [] operation = "DeleteUser" -> [a EXCEPT !.users = @ \ {t}]
      [] operation = "DeleteKeyPair" -> [a EXCEPT !.keyPairs = @ \ {t}]
      [] operation = "DeleteSecurityGroup" ->
            [a EXCEPT !.sgs = @ \ {t},
                      !.rules = {r \in @ : r[1] # t}]
      [] OTHER -> a

\* The status codes the service may answer a call with: 200 or a client
\* error according to the account, or a failure of the service itself.
Answers(operation, t, arg, a) ==
    IF Accepts(operation, t, arg, a) THEN {200, 503} ELSE {400, 503}

\* AWS.op: issue the call, print, and return the data or False.
op(operation, arg, debug_output, status) ==
    /\ trace' = Append(trace, <<operation, arg>>)
    /\ acct' = IF status = 200 THEN Effect(operation, team, arg, acct) ELSE acct
    /\ ret' = IF status = 200 THEN "data" ELSE "False"
    /\ printed' = IF status = 200
                    THEN (IF debug_output THEN "Success" ELSE "nothing")
                    ELSE "Error.Message"
    /\ failed' = (failed \/ status # 200)
    /\ faulted' = (faulted \/ (status # 200 /\ Accepts(operation, team, arg, acct)))

\* A new command-line invocation: the locals of the operation start afresh.
Begin(operation, t, clock) ==
    /\ pc = "idle"
    /\ cmd' = operation
    /\ team' = t
    /\ trace' = <<>>
    /\ ret' = "none"
    /\ printed' = "nothing"
    /\ exit' = "running"
    /\ created' = FALSE
    /\ wrotePem' = FALSE
    /\ keysLeft' = <<>>
    /\ stacks' = <<>>
    /\ idx' = 1
    /\ now' = clock
    /\ failed' = FALSE
    /\ faulted' = FALSE
    /\ fromConfigured' = (t \in configured)
    /\ UNCHANGED <<acct, pemFiles>>

\* ---- AWS.configure -------------------------------------------------------
configure(t) ==
    /\ Begin("configure", t, 0)
    /\ pc' = "configure:CreateGroup"
    /\ UNCHANGED configured

\* A call of configure whose result is not used: issue it and go on.
ConfigureCall(at, operation, arg, next) ==
    /\ pc = at
    /\ \E status \in Answers(operation, team, arg, acct) :
          op(operation, arg, TRUE, status)
    /\ pc' = next
    /\ UNCHANGED <<pemFiles, cmd, team, exit, created, wrotePem, keysLeft, stacks,
                   idx, now, configured, fromConfigured>>

ConfigureCreateGroup ==
    ConfigureCall("configure:CreateGroup", "CreateGroup", NoArg,
                  "configure:PutGroupPolicy")

ConfigurePutGroupPolicy ==
    ConfigureCall("configure:PutGroupPolicy", "PutGroupPolicy", NoArg,
                  "configure:CreateUser")

\* Mutant: the login profile, access key and key pair are created whether or
\* not CreateUser succeeded.
ConfigureCreateUser_Unconditional ==
    /\ pc = "configure:CreateUser"
    /\ \E status \in Answers("CreateUser", team, NoArg, acct) :
          /\ op("CreateUser", NoArg, TRUE, status)
          /\ created' = (status = 200)
          /\ pc' = "configure:CreateLoginProfile"
    /\ UNCHANGED <<pemFiles, cmd, team, exit, wrotePem, keysLeft, stacks, idx, now,
                   configured, fromConfigured>>

\* if self.op(self.iam, 'CreateUser', UserName=team):
ConfigureCreateUser ==
    /\ pc = "configure:CreateUser"
    /\ \E status \in Answers("CreateUser", team, NoArg, acct) :
          /\ op("CreateUser", NoArg, TRUE, status)
          /\ created' = (status = 200)
          /\ pc' = IF status = 200 THEN "configure:CreateLoginProfile"
                                   ELSE "configure:AddUserToGroup"
    /\ UNCHANGED <<pemFiles, cmd, team, exit, wrotePem, keysLeft, stacks, idx, now,
                   configured, fromConfigured>>

ConfigureCreateLoginProfile ==
    ConfigureCall("configure:CreateLoginProfile", "CreateLoginProfile", NoArg,
                  "configure:CreateAccessKey")

ConfigureCreateAccessKey ==
    ConfigureCall("configure:CreateAccessKey", "CreateAccessKey", NoArg,
                  "configure:CreateKeyPair")

\* data = self.op(self.ec2, 'CreateKeyPair', ...); if data: write <team>.pem
ConfigureCreateKeyPair ==
    /\ pc = "configure:CreateKeyPair"
    /\ \E status \in Answers("CreateKeyPair", team, NoArg, acct) :
          /\ op("CreateKeyPair", NoArg, TRUE, status)
          /\ wrotePem' = (status = 200)
          /\ pemFiles' = IF status = 200 THEN pemFiles \cup {team} ELSE pemFiles
    /\ pc' = "configure:AddUserToGroup"
    /\ UNCHANGED <<cmd, team, exit, created, keysLeft, stacks, idx, now,
                   configured, fromConfigured>>

\* Mutant: a failed AddUserToGroup is tried again.
ConfigureAddUserToGroup_Retry ==
    /\ pc = "configure:AddUserToGroup"
    /\ \E status \in Answers("AddUserToGroup", team, NoArg, acct) :
          /\ op("AddUserToGroup", NoArg, TRUE, status)
          /\ pc' = IF status = 200 THEN "configure:CreateSecurityGroup" ELSE pc
    /\ UNCHANGED <<pemFiles, cmd, team, exit, created, wrotePem, keysLeft, stacks,
                   idx, now, configured, fromConfigured>>

ConfigureAddUserToGroup ==
    ConfigureCall("configure:AddUserToGroup", "AddUserToGroup", NoArg,
                  "configure:CreateSecurityGroup")

\* Mutant: the ingress rules are added only when CreateSecurityGroup
\* succeeded, as the login profile and the keys are after CreateUser.
ConfigureCreateSecurityGroup_Guarding ==
    /\ pc = "configure:CreateSecurityGroup"
    /\ \E status \in Answers("CreateSecurityGroup", team, NoArg, acct) :
          /\ op("CreateSecurityGroup", NoArg, TRUE, status)
          /\ pc' = IF status = 200 THEN "configure:Ingress"
                                   ELSE "configure:PutUserPolicy"
    /\ UNCHANGED <<pemFiles, cmd, team, exit, created, wrotePem, keysLeft, stacks,
                   idx, now, configured, fromConfigured>>

ConfigureCreateSecurityGroup ==
    ConfigureCall("configure:CreateSecurityGroup", "CreateSecurityGroup",
                  NoArg, "configure:Ingress")

\* for port in [22, 80, 443]: one AuthorizeSecurityGroupIngress each
ConfigureIngressPort ==
    /\ pc = "configure:Ingress"
    /\ idx <= Len(Ports)
    /\ \E status \in Answers("AuthorizeSecurityGroupIngress", team, Ports[idx], acct) :
          op("AuthorizeSecurityGroupIngress", Ports[idx], TRUE, status)
    /\ idx' = idx + 1
    /\ pc' = IF idx < Len(Ports) THEN pc ELSE "configure:IngressSelf"
    /\ UNCHANGED <<pemFiles, cmd, team, exit, created, wrotePem, keysLeft, stacks,
                   now, configured, fromConfigured>>

ConfigureIngressSelf ==
    ConfigureCall("configure:IngressSelf", "AuthorizeSecurityGroupIngress",
                  SelfRule, "configure:PutUserPolicy")

ConfigurePutUserPolicy ==
    ConfigureCall("configure:PutUserPolicy", "PutUserPolicy", NoArg,
                  "configure:return")

\* return 0
ConfigureReturn ==
    /\ pc = "configure:return"
    /\ pc' = "idle"
    /\ exit' = "0"
    /\ configured' = IF faulted THEN configured ELSE configured \cup {team}
    /\ UNCHANGED <<acct, pemFiles, cmd, team, trace, ret, printed, created,
                   wrotePem, keysLeft, stacks, idx, now, failed, faulted,
                   fromConfigured>>

\* ---- AWS.purge -----------------------------------------------------------
purge(t) ==
    /\ Begin("purge", t, 0)
    /\ pc' = "purge:DeleteLoginProfile"
    /\ configured' = configured \ {t}

PurgeCall(at, operation, arg, next) ==
    /\ pc = at
    /\ \E status \in Answers(operation, team, arg, acct) :
          op(operation, arg, TRUE, status)
    /\ pc' = next
    /\ UNCHANGED <<pemFiles, cmd, team, exit, created, wrotePem, keysLeft, stacks,
                   idx, now, configured, fromConfigured>>

PurgeDeleteLoginProfile ==
    PurgeCall("purge:DeleteLoginProfile", "DeleteLoginProfile", NoArg,
              "purge:DeleteUserPolicy")

PurgeDeleteUserPolicy ==
    PurgeCall("purge:DeleteUserPolicy", "DeleteUserPolicy", NoArg,
              "purge:ListAccessKeys")

\* The AccessKeyMetadata of a ListAccessKeys answer: the user's keys, in the
\* order of KeyIds.
SeqOfKeys(ks, i) ==
    LET F[j \in 0..Len(KeyIds)] ==
            IF j = 0 THEN <<>>
            ELSE IF KeyIds[j] \in ks THEN Append(F[j - 1], KeyIds[j])
                                     ELSE F[j - 1]
    IN F[i]

AccessKeyMetadata(a, t) ==
    SeqOfKeys({k[2] : k \in KeysOf(a, t)}, Len(KeyIds))

\* resp = self.op(self.iam, 'ListAccessKeys', UserName=team); if resp: for ...
PurgeListAccessKeys ==
    /\ pc = "purge:ListAccessKeys"
    /\ \E status \in Answers("ListAccessKeys", team, NoArg, acct) :
          /\ op("ListAccessKeys", NoArg, TRUE, status)
          /\ keysLeft' = IF status = 200 THEN AccessKeyMetadata(acct, team)
                                         ELSE <<>>
    /\ pc' = "purge:DeleteAccessKey"
    /\ UNCHANGED <<pemFiles, cmd, team, exit, created, wrotePem, stacks, idx, now,
                   configured, fromConfigured>>

\* for keydata in resp['AccessKeyMetadata']: DeleteAccessKey
PurgeDeleteAccessKey ==
    /\ pc = "purge:DeleteAccessKey"
    /\ keysLeft # <<>>
    /\ \E status \in Answers("DeleteAccessKey", team, Head(keysLeft), acct) :
          op("DeleteAccessKey", Head(keysLeft), TRUE, status)
    /\ keysLeft' = Tail(keysLeft)
    /\ UNCHANGED <<pemFiles, pc, cmd, team, exit, created, wrotePem, stacks, idx,
                   now, configured, fromConfigured>>

\* Mutant: the user is deleted while still a member of the group.
PurgeRemoveUserFromGroup_Missing ==
    /\ keysLeft = <<>>
    /\ pc = "purge:DeleteAccessKey"
    /\ pc' = "purge:DeleteUser"
    /\ UNCHANGED <<acct, pemFiles, cmd, team, trace, ret, printed, exit, created,
                   wrotePem, keysLeft, stacks, idx, now, failed, faulted,
                   configured, fromConfigured>>

\* The loop is over (or was skipped): RemoveUserFromGroup
PurgeRemoveUserFromGroup ==
    /\ keysLeft = <<>>
    /\ PurgeCall("purge:DeleteAccessKey", "RemoveUserFromGroup", NoArg,
                 "purge:DeleteUser")

PurgeDeleteUser ==
    PurgeCall("purge:DeleteUser", "DeleteUser", NoArg, "purge:DeleteKeyPair")

PurgeDeleteKeyPair ==
    PurgeCall("purge:DeleteKeyPair", "DeleteKeyPair", NoArg,
              "purge:DeleteSecurityGroup")

PurgeDeleteSecurityGroup ==
    PurgeCall("purge:DeleteSecurityGroup", "DeleteSecurityGroup", NoArg,
              "purge:return")

\* return 0
PurgeReturn ==
    /\ pc = "purge:return"
    /\ pc' = "idle"
    /\ exit' = "0"
    /\ UNCHANGED <<acct, pemFiles, cmd, team, trace, ret, printed, created,
                   wrotePem, keysLeft, stacks, idx, now, failed, faulted,
                   configured, fromConfigured>>

\* ---- AWS.cleanup ---------------------------------------------------------
\* timedelta(hours=8), in hours
Hours8 == 8
\* The clock, in hours: the creation times a stack may have and the times
\* cleanup may start at give ages below, at and above the eight hours.
MaxCreation == 2
CreationTimes == 0..MaxCreation
StartTimes == {Hours8, Hours8 + 1}
MaxStacks == 2
Statuses == {"CREATE_COMPLETE", "DELETE_COMPLETE"}
StackNameOf(i) == "stack" \o ToString(i)

\* The StackSummaries a ListStacks answer may hold.
StackLists ==
    UNION {
        { [i \in 1..n |-> [StackName |-> StackNameOf(i),
                           StackStatus |-> f[i][1],
                           CreationTime |-> f[i][2]]] :
             f \in [1..n -> Statuses \X CreationTimes] } :
        n \in 0..MaxStacks }

\* Mutant: a stack aged exactly eight hours counts as old.
TooOld_AtLeast(clock, stack) == clock - stack.CreationTime >= Hours8

\* now - stack['CreationTime'] > timedelta(hours=8)
TooOld(clock, stack) == clock - stack.CreationTime > Hours8

\* stack['StackStatus'] in {'DELETE_COMPLETE'}
Skipped(stack) == stack.StackStatus \in {"DELETE_COMPLETE"}

cleanup ==
    /\ \E clock \in StartTimes : Begin("cleanup", NoArg, clock)
    /\ pc' = "cleanup:ListStacks"
    /\ UNCHANGED configured

\* for stack in self.op(cf, 'ListStacks', False)['StackSummaries']:
\* subscripting the False of a failed call raises TypeError.
CleanupListStacks ==
    /\ pc = "cleanup:ListStacks"
    /\ \E status \in Answers("ListStacks", team, NoArg, acct) :
          /\ op("ListStacks", NoArg, FALSE, status)
          /\ IF status = 200
               THEN /\ \E l \in StackLists : stacks' = l
                    /\ pc' = "cleanup:for"
                    /\ exit' = exit
               ELSE /\ stacks' = stacks
                    /\ pc' = "idle"
                    /\ exit' = "TypeError"
    /\ UNCHANGED <<pemFiles, cmd, team, created, wrotePem, keysLeft, idx, now,
                   configured, fromConfigured>>

\* One iteration of the loop: continue, or DeleteStack when the stack is old.
CleanupStack ==
    /\ pc = "cleanup:for"
    /\ idx <= Len(stacks)
    /\ IF ~Skipped(stacks[idx]) /\ TooOld(now, stacks[idx])
         THEN \E status \in Answers("DeleteStack", team, stacks[idx].StackName, acct) :
                 op("DeleteStack", stacks[idx].StackName, TRUE, status)
         ELSE UNCHANGED <<acct, trace, ret, printed, failed, faulted>>
    /\ idx' = idx + 1
    /\ UNCHANGED <<pemFiles, pc, cmd, team, exit, created, wrotePem, keysLeft,
                   stacks, now, configured, fromConfigured>>

\* The loop is exhausted: the method ends without a return statement.
CleanupReturn ==
    /\ pc = "cleanup:for"
    /\ idx > Len(stacks)
    /\ pc' = "idle"
    /\ exit' = "None"
    /\ UNCHANGED <<acct, pemFiles, cmd, team, trace, ret, printed, created,
                   wrotePem, keysLeft, stacks, idx, now, failed, faulted,
                   configured, fromConfigured>>

\* ---- AWS.list_security_groups -------------------------------------------
list_security_groups ==
    /\ Begin("list_security_groups", NoArg, 0)
    /\ pc' = "list_security_groups:DescribeSecurityGroups"
    /\ UNCHANGED configured

\* retval = self.op(...); pprint({... for x in retval['SecurityGroups']})
ListDescribeSecurityGroups ==
    /\ pc = "list_security_groups:DescribeSecurityGroups"
    /\ \E status \in Answers("DescribeSecurityGroups", team, NoArg, acct) :
          /\ op("DescribeSecurityGroups", NoArg, TRUE, status)
          /\ exit' = IF status = 200 THEN "None" ELSE "TypeError"
    /\ pc' = "idle"
    /\ UNCHANGED <<pemFiles, cmd, team, created, wrotePem, keysLeft, stacks,
                   idx, now, configured, fromConfigured>>

\* ---- AWS.verify_template -------------------------------------------------
verify_template ==
    /\ Begin("verify_template", NoArg, 0)
    /\ pc' = "verify_template:ValidateTemplate"
    /\ UNCHANGED configured

\* print(self.op(cf, 'ValidateTemplate', TemplateBody=template)): the service
\* accepts the template or rejects it.
VerifyValidateTemplate ==
    /\ pc = "verify_template:ValidateTemplate"
    /\ \E status \in {200, 400, 503} :
          op("ValidateTemplate", NoArg, TRUE, status)
    /\ pc' = "idle"
    /\ exit' = "None"
    /\ UNCHANGED <<pemFiles, cmd, team, created, wrotePem, keysLeft, stacks,
                   idx, now, configured, fromConfigured>>

InitAWS ==
    /\ acct = EmptyAccount
    /\ pemFiles = {}
    /\ pc = "idle"
    /\ cmd = "none"
    /\ team = NoArg
    /\ trace = <<>>
    /\ ret = "none"
    /\ printed = "nothing"
    /\ exit = "none"
    /\ created = FALSE
    /\ wrotePem = FALSE
    /\ keysLeft = <<>>
    /\ stacks = <<>>
    /\ idx = 1
    /\ now = 0
    /\ failed = FALSE
    /\ faulted = FALSE
    /\ configured = {}
    /\ fromConfigured = FALSE

NextConfigure ==
    \/ \E t \in Teams : configure(t) /\ AwsFrame
    \/ ConfigureCreateGroup /\ AwsFrame
    \/ ConfigurePutGroupPolicy /\ AwsFrame
    \/ ConfigureCreateUser /\ AwsFrame
    \/ ConfigureCreateLoginProfile /\ AwsFrame
    \/ ConfigureCreateAccessKey /\ AwsFrame
    \/ ConfigureCreateKeyPair /\ AwsFrame
    \/ ConfigureAddUserToGroup /\ AwsFrame
    \/ ConfigureCreateSecurityGroup /\ AwsFrame
    \/ ConfigureIngressPort /\ AwsFrame
    \/ ConfigureIngressSelf /\ AwsFrame
    \/ ConfigurePutUserPolicy /\ AwsFrame
    \/ ConfigureReturn /\ AwsFrame

NextPurge ==
    \/ \E t \in Teams : purge(t) /\ AwsFrame
    \/ PurgeDeleteLoginProfile /\ AwsFrame
    \/ PurgeDeleteUserPolicy /\ AwsFrame
    \/ PurgeListAccessKeys /\ AwsFrame
    \/ PurgeDeleteAccessKey /\ AwsFrame
    \/ PurgeRemoveUserFromGroup /\ AwsFrame
    \/ PurgeDeleteUser /\ AwsFrame
    \/ PurgeDeleteKeyPair /\ AwsFrame
    \/ PurgeDeleteSecurityGroup /\ AwsFrame
    \/ PurgeReturn /\ AwsFrame

NextProvision == NextConfigure \/ NextPurge

NextStacks ==
    \/ cleanup /\ AwsFrame
    \/ CleanupListStacks /\ AwsFrame
    \/ CleanupStack /\ AwsFrame
    \/ CleanupReturn /\ AwsFrame
    \/ list_security_groups /\ AwsFrame
    \/ ListDescribeSecurityGroups /\ AwsFrame
    \/ verify_template /\ AwsFrame
    \/ VerifyValidateTemplate /\ AwsFrame


NextAWS == NextProvision \/ NextStacks


\* ------------------------------------------------------- clean_team_names
\* Strings are sequences of characters.  The characters that matter to
\* strip() and replace(' ', '-'): a letter, the space, another whitespace
\* character and the hyphen.
Space == " "
Tab == "\t"
Hyphen == "-"
Chars == {"a", Space, Tab}
Whitespace == {Space, Tab}
MaxChars == 5
MaxTeams == 2

RECURSIVE lstrip(_)
lstrip(str) ==
    IF str # <<>> /\ Head(str) \in Whitespace THEN lstrip(Tail(str)) ELSE str

RECURSIVE rstrip(_)
rstrip(str) ==
    IF str # <<>> /\ str[Len(str)] \in Whitespace
      THEN rstrip(SubSeq(str, 1, Len(str) - 1))
      ELSE str

\* str.strip()
strip(str) == rstrip(lstrip(str))

\* str.replace(old, new) for one-character old and new
replace(str, old, new) ==
    [i \in 1..Len(str) |-> IF str[i] = old THEN new ELSE str[i]]

\* Mutant: only the first occurrence is replaced.
CleanName_FirstOnly(item) ==
    LET st == strip(item)
    IN [i \in 1..Len(st) |->
          IF st[i] = Space /\ \A j \in 1..(i - 1) : st[j] # Space
            THEN Hyphen ELSE st[i]]

\* item.strip().replace(' ', '-')
CleanName(item) == replace(strip(item), Space, Hyphen)

None == [kind |-> "None"]
Str(str) == [kind |-> "str", v |-> str]
List(l) == [kind |-> "list", v |-> l]

\* Python truthiness of args['TEAM']
Truthy(x) == x.kind # "None" /\ x.v # <<>>

clean_team_names(x) ==
    IF Truthy(x)
      THEN IF x.kind = "list"
             THEN List([i \in 1..Len(x.v) |-> CleanName(x.v[i])])
             ELSE Str(CleanName(x.v))
      ELSE x

Strings(n) == UNION {[1..k -> Chars] : k \in 0..n}

RECURSIVE Lists(_, _)
\* The lists of at most n strings with at most c characters in all.
Lists(n, c) ==
    {<<>>} \cup
    (IF n = 0 THEN {}
     ELSE UNION {{<<str>> \o l : l \in Lists(n - 1, c - Len(str))} :
                 str \in Strings(c)})

\* What docopt may hand over as args['TEAM'].
TeamInputs ==
    {None} \cup {Str(str) : str \in Strings(MaxChars)}
           \cup {List(l) : l \in Lists(MaxTeams, MaxChars)}

IdleNames ==
    /\ teamArg = None
    /\ teamIn = None
    /\ teamPrev = None
    /\ cleanCalls = 0

InitNames ==
    /\ teamArg \in TeamInputs
    /\ teamIn = teamArg
    /\ teamPrev = teamArg
    /\ cleanCalls = 0

\* clean_team_names(args), on the args of a first or of an earlier call.
CleanTeamNames ==
    /\ cleanCalls < 2
    /\ teamPrev' = teamArg
    /\ teamArg' = clean_team_names(teamArg)
    /\ cleanCalls' = cleanCalls + 1
    /\ UNCHANGED teamIn

NextNames ==
    CleanTeamNames
      /\ UNCHANGED <<awsVars, mainVars, tmplVars, tokenVars, ghVars, updVars>>

\* ------------------------------------------------------ scalable_admin main
\* The keys of the commands table.
Commands == {"aws", "aws-cleanup", "aws-purge", "aws-update-all",
             "cftemplate", "cftemplate-update-all", "gh"}

\* What the handler of a command may return: configure and purge return 0,
\* cleanup returns None or raises, generate_stack a falsy or a truthy value and
\* configure_github_team 0, or 1 when the user does not confirm.
HandlerReturns(command_name) ==
    CASE command_name \in {"aws", "aws-purge", "aws-update-all"} -> {"0"}
      [] command_name = "aws-cleanup" -> {"None", "TypeError"}
      [] OTHER -> {"0", "1"}

\* The parsed mappings: docopt sets one sub-command; main also handles none.
ArgsInputs == {{}} \cup {{c} : c \in Commands}

\* TEAM values for a run of main: absent, a name, a list of names.
MainTeamInputs ==
    {None, Str(<<"a", Space, "a">>), List(<< <<Space, "a">>, <<"a">> >>)}

IdleMain ==
    /\ mainPc = "idle"
    /\ args = {}
    /\ visited = {}
    /\ invoked = <<>>
    /\ handlerRet = "none"
    /\ mainResult = "none"

\* args = docopt(__doc__); parse_config(AWS); clean_team_names(args)
main ==
    /\ mainPc \in {"idle", "done"}
    /\ \E a \in ArgsInputs : args' = a
    /\ \E x \in MainTeamInputs :
          /\ teamIn' = x
          /\ teamPrev' = x
          /\ teamArg' = clean_team_names(x)
    /\ cleanCalls' = 1
    /\ visited' = {}
    /\ invoked' = <<>>
    /\ handlerRet' = "none"
    /\ mainResult' = "none"
    /\ mainPc' = "for"

\* Mutant: the handler's result is not returned, the loop goes on.
MainIterate_NoReturn ==
    /\ mainPc = "for"
    /\ \E command_name \in Commands \ visited :
          /\ visited' = visited \cup {command_name}
          /\ IF command_name \in args
               THEN \E r \in HandlerReturns(command_name) :
                       /\ invoked' = Append(invoked, command_name)
                       /\ handlerRet' = r
               ELSE UNCHANGED <<invoked, handlerRet>>
          /\ UNCHANGED <<mainPc, mainResult>>
    /\ UNCHANGED <<args, namesVars>>

\* for command_name in commands: if args[command_name]: return handler(args)
\* The dictionary yields its keys in an order the program does not control.
MainIterate ==
    /\ mainPc = "for"
    /\ \E command_name \in Commands \ visited :
          /\ visited' = visited \cup {command_name}
          /\ IF command_name \in args
               THEN \E r \in HandlerReturns(command_name) :
                       /\ invoked' = Append(invoked, command_name)
                       /\ handlerRet' = r
                       /\ mainResult' = r
                       /\ mainPc' = "done"
               ELSE UNCHANGED <<invoked, handlerRet, mainResult, mainPc>>
    /\ UNCHANGED <<args, namesVars>>

\* else: raise Exception('Invalid state')
MainInvalidState ==
    /\ mainPc = "for"
    /\ visited = Commands
    /\ mainResult' = "Exception: Invalid state"
    /\ mainPc' = "done"
    /\ UNCHANGED <<args, visited, invoked, handlerRet, namesVars>>

NextMain ==
    \/ main /\ MainFrame
    \/ MainIterate /\ MainFrame
    \/ MainInvalidState /\ MainFrame

\* -------------------------------------------------------------- CFTemplate
\* Dictionaries are functions on their keys.
Put(d, k, v) == [x \in (DOMAIN d) \cup {k} |-> IF x = k THEN v ELSE d[x]]
EmptyDict == [x \in {} |-> "None"]

DEFAULT_AMI == "ami-55a7ea65"
\* The lists and the mapping the template refers to, by name.
INSTANCES == "CFTemplate.INSTANCES"
DB_INSTANCES == "['db.' + x for x in CFTemplate.INSTANCES]"
TEAM_MAP == "CFTemplate.TEAM_MAP"
TEAM_NAMES == "CFTemplate.TEAM_MAP.keys()"

\* TEMPLATE = {'AWSTemplateFormatVersion': '2010-09-09', 'Outputs': {}, ...}
InitialTEMPLATE ==
    [AWSTemplateFormatVersion |-> "2010-09-09",
     Outputs |-> EmptyDict,
     Parameters |-> EmptyDict,
     Resources |-> EmptyDict]

\* The dictionaries are objects: a name or an attribute holds a reference,
\* and an item assignment changes the object for every holder of it.  The
\* references to the dictionaries of the class attributes:
TEMPLATE == "CFTemplate.TEMPLATE"
POLICY == "AWS.POLICY"
\* The keys of a template whose values are dictionaries of their own.
SubDicts == {"Outputs", "Parameters", "Resources"}
SubRef(top, k) == top \o "." \o k

TeamGroups ==
    {<<"BaconWindshield", "sg-ab3052ce">>, <<"Compete", "sg-d33052b6">>,
     <<"Gradr", "sg-b53052d0">>, <<"LaPlaya", "sg-dd3052b8">>,
     <<"Lab-App", "sg-763c5213">>, <<"Motley-Crew", "sg-fa97fa9f">>,
     <<"Suppr", "sg-b13052d4">>, <<"Team-Hytta", "sg-1297fa77">>,
     <<"Upvid", "sg-bd3052d8">>, <<"Xup", "sg-a03052c5">>,
     <<"labapp", "sg-661f7203">>, <<"picShare", "sg-db3052be">>}

\* TEAM_MAP = {'BaconWindshield': {'sg': 'sg-ab3052ce'}, ...}
InitialTEAM_MAP ==
    [t \in {p[1] : p \in TeamGroups} |->
        [sg |-> (CHOOSE p \in TeamGroups : p[1] = t)[2]]]

REGION == "us-west-2"

\* POLICY = {'Statement': [...]}
InitialPOLICY ==
    [Statement |->
       << [Action |-> <<"autoscaling:*", "cloudformation:CreateUploadBucket",
                        "cloudformation:Describe*", "cloudformation:Get*",
                        "cloudformation:ListStack*",
                        "cloudformation:ValidateTemplate",
                        "cloudwatch:DescribeAlarms",
                        "cloudwatch:GetMetricStatistics",
                        "elasticloadbalancing:Describe*", "rds:Describe*",
                        "rds:ListTagsForResource", "s3:Get*", "s3:PutObject",
                        "sts:DecodeAuthorizationMessage">>,
           Effect |-> "Allow", Resource |-> "*"],
          [Action |-> <<"ec2:Describe*">>,
           Condition |-> [StringEquals |-> ("ec2:Region" :> REGION)],
           Effect |-> "Allow", Resource |-> "*"] >>]

\* The objects that exist when the classes have been defined.
InitialHeap ==
    LET top == [k \in DOMAIN InitialTEMPLATE |->
                   IF k \in SubDicts THEN SubRef(TEMPLATE, k)
                                     ELSE InitialTEMPLATE[k]]
        subs == [r \in {SubRef(TEMPLATE, k) : k \in SubDicts} |-> EmptyDict]
    IN Put(Put(Put(subs, TEMPLATE, top), TEAM_MAP, InitialTEAM_MAP),
           POLICY, InitialPOLICY)

\* The template behind reference t with its own dictionaries in place of
\* the references to them: what self.template[...] reads.
Local(h, t) ==
    [k \in DOMAIN h[t] |-> IF k \in SubDicts THEN h[h[t][k]] ELSE h[t][k]]

\* The item assignments that turn the template behind t into v, done on the
\* objects they are done on: self.template[k] = ... on the template's own
\* dictionary, self.template['Outputs'][name] = ... and
\* self.template['Parameters'][name] = ... on the dictionaries it refers to.
Store(h, t, v) ==
    LET top == [k \in DOMAIN v |-> IF k \in SubDicts THEN h[t][k] ELSE v[k]]
        subs == {h[t][k] : k \in SubDicts}
    IN [r \in DOMAIN h |->
          IF r \in subs
            THEN v[CHOOSE k \in SubDicts : h[t][k] = r]
            ELSE IF r = t THEN top ELSE h[r]]

\* json.dumps(self.template, ...): the whole document, the dictionaries the
\* template refers to written out.
json_dumps(h, t) ==
    LET v == Local(h, t)
    IN [k \in DOMAIN v |->
          IF k = "Mappings" THEN [Teams |-> h[v[k].Teams]] ELSE v[k]]

\* A reference no object has yet.
NewRef(h) == "dict" \o ToString(Cardinality(DOMAIN h) + 1)

\* Mutant: copy.copy, a new dictionary that refers to the same Outputs,
\* Parameters and Resources dictionaries.
deepcopy_Shallow(h, t) ==
    LET top == NewRef(h)
    IN [ref |-> top, heap |-> Put(h, top, h[t])]

\* copy.deepcopy of a template: a new dictionary and new dictionaries for
\* those it refers to.
deepcopy(h, t) ==
    LET top == NewRef(h)
        copy == [k \in DOMAIN h[t] |->
                    IF k \in SubDicts THEN SubRef(top, k) ELSE h[t][k]]
        refs == {top} \cup {SubRef(top, k) : k \in SubDicts}
    IN [ref |-> top,
        heap |-> [r \in DOMAIN h \cup refs |->
                     IF r = top THEN copy
                     ELSE IF r \in DOMAIN h THEN h[r]
                     ELSE h[h[t][CHOOSE k \in SubDicts : SubRef(top, k) = r]]]]

NoInstance == [made |-> FALSE]

\* Python truthiness of an argument of add_parameter (None, '' and 0 are
\* false; the lists passed are not empty).
Given(x) == x \notin {"None", "", "0"}

\* CFTemplate.get_att
get_att(resource, attribute) == [FnGetAtt |-> <<resource, attribute>>]

\* CFTemplate.join
join(separator, a, b) == [FnJoin |-> <<separator, <<a, b>> >>]

\* CFTemplate.__init__: the new instance, with the reference to its
\* template, and the heap with the copy.
CFTemplateInit(h, app_ami, memcached, multi, passenger) ==
    LET c == deepcopy(h, TEMPLATE)
    IN [heap |-> c.heap,
        self |-> [made |-> TRUE,
                  ami |-> IF Given(app_ami) THEN app_ami ELSE DEFAULT_AMI,
                  memcached |-> memcached, multi |-> multi,
                  passenger |-> passenger,
                  template |-> c.ref]]

\* The instance as its methods see it: self.template followed to the
\* dictionaries.
Bound(h, self) == [self EXCEPT !.template = Local(h, self.template)]

\* CFTemplate.add_output
add_output(self, name, description, value) ==
    [self EXCEPT !.template.Outputs =
        Put(@, name, [Description |-> description, Value |-> value])]

\* The pairs (key, argument) add_parameter copies when the argument is true.
ParamKeys(allowed, default, description, error_msg, maxv, minv) ==
    {<<"AllowedValues", allowed>>, <<"Default", default>>,
     <<"Description", description>>, <<"ConstraintDescription", error_msg>>,
     <<"MaxValue", maxv>>, <<"MinValue", minv>>}

\* CFTemplate.add_parameter
add_parameter(self, name, ptype, allowed, default, description, error_msg, maxv, minv) ==
    LET opts == {kv \in ParamKeys(allowed, default, description, error_msg,
                                  maxv, minv) : Given(kv[2])}
        param == [k \in {"Type"} \cup {kv[1] : kv \in opts} |->
                     IF k = "Type" THEN ptype
                     ELSE (CHOOSE kv \in opts : kv[1] = k)[2]]
    IN [self EXCEPT !.template.Parameters = Put(@, name, param)]

\* The common configuration of generate.
Common(self) ==
    LET s1 == add_parameter(self, "AppInstanceType", "String", INSTANCES,
                 "t1.micro", "The AppServer instance type.",
                 "Must be a valid t1, m1, or m2 EC2 instance type.",
                 "None", "None")
        s2 == add_parameter(s1, "Branch", "String", "None", "master",
                 "The git branch to deploy.", "None", "None", "None")
    IN add_parameter(s2, "TeamName", "String", TEAM_NAMES, "None",
                 "Your CS290 team name.",
                 "Must exactly match your team name as shown in your Github URL.",
                 "None", "None")

\* The branch of generate taken when self.multi is true.
Multi(self) ==
    LET s1 == add_parameter(self, "AppInstances", "Number", "None", "2",
                 "The number of AppServer instances to launch.", "None",
                 "8", "1")
        s2 == add_parameter(s1, "DBInstanceType", "String", DB_INSTANCES,
                 "db.t1.micro", "The Database instance type.",
                 "Must be a valid db.t1, db.m1, or db.m2 EC2 instance type.",
                 "None", "None")
    IN [s2 EXCEPT !.template = Put(@, "Mappings", [Teams |-> TEAM_MAP])]

\* Mutant: the multi-instance branch is chosen by the memcached flag.
generate_ByMemcached(self) ==
    LET c == Common(self)
        url == IF self.memcached THEN get_att("LoadBalancer", "DNSName")
                                 ELSE get_att("AppServer", "PublicDnsName")
        m == IF self.memcached THEN Multi(c) ELSE c
    IN add_output(m, "URL", "The URL to the rails application.",
                  join("", "http://", url))

\* CFTemplate.generate: the instance after the call; its template is the
\* document that is serialised, printed and verified.
generate(self) ==
    LET c == Common(self)
        url == IF self.multi THEN get_att("LoadBalancer", "DNSName")
                             ELSE get_att("AppServer", "PublicDnsName")
        m == IF self.multi THEN Multi(c) ELSE c
    IN add_output(m, "URL", "The URL to the rails application.",
                  join("", "http://", url))

MaxDocs == 2
MaxInstances == 2
MaxOwn == 1
AmiInputs == {"None", "ami-0000"}

InitTemplate ==
    /\ heap = InitialHeap
    /\ cf = NoInstance
    /\ own = EmptyDict
    /\ docs = <<>>

\* cf = CFTemplate(app_ami=..., memcached=..., multi=..., passenger=...):
\* the instance that was at hand is let go, its dictionaries are not reused.
NewCFTemplate ==
    /\ Cardinality(DOMAIN own) < MaxInstances
    /\ \E app_ami \in AmiInputs : \E memcached, multi, passenger \in BOOLEAN :
          LET new == CFTemplateInit(heap, app_ami, memcached, multi, passenger)
          IN /\ cf' = new.self
             /\ heap' = new.heap
             /\ own' = Put(own, new.self.template, {})
    /\ UNCHANGED docs

\* cf.generate(): print(template); AWS().verify_template(template)
Generate ==
    /\ cf.made
    /\ Len(docs) < MaxDocs
    /\ heap' = Store(heap, cf.template, generate(Bound(heap, cf)).template)
    /\ docs' = Append(docs,
          [multi |-> cf.multi, memcached |-> cf.memcached,
           passenger |-> cf.passenger, own |-> own[cf.template],
           document |-> json_dumps(heap', cf.template)])
    /\ UNCHANGED <<cf, own>>

\* The calls of add_parameter and add_output made from outside generate.
OwnCalls == Cardinality({<<r, c>> \in (DOMAIN own) \X {"Parameters", "Outputs"} :
                            c \in own[r]})

\* cf.add_parameter('Extra', default='x')
AddParameter ==
    /\ cf.made
    /\ OwnCalls < MaxOwn
    /\ heap' = Store(heap, cf.template,
          add_parameter(Bound(heap, cf), "Extra", "String", "None", "x",
                        "None", "None", "None", "None").template)
    /\ own' = [own EXCEPT ![cf.template] = @ \cup {"Parameters"}]
    /\ UNCHANGED <<cf, docs>>

\* cf.add_output('Extra', 'An output.', 'x')
AddOutput ==
    /\ cf.made
    /\ OwnCalls < MaxOwn
    /\ heap' = Store(heap, cf.template,
          add_output(Bound(heap, cf), "Extra", "An output.", "x").template)
    /\ own' = [own EXCEPT ![cf.template] = @ \cup {"Outputs"}]
    /\ UNCHANGED <<cf, docs>>

NextTemplate ==
    \/ NewCFTemplate /\ TemplateFrame
    \/ Generate /\ TemplateFrame

NextTemplateCalls ==
    \/ NextTemplate
    \/ AddParameter /\ TemplateFrame
    \/ AddOutput /\ TemplateFrame

\* -------------------------------------------------------- the token caches
Newline == "\n"
NoFile == [exists |-> FALSE]
File(content) == [exists |-> TRUE, content |-> content]

\* Python values: the None, a str (its characters), an int.
PyStr(str) == [type |-> "str", str |-> str]
PyInt(n) == [type |-> "int", int |-> n]
PyNone == [type |-> "NoneType"]

Digits == <<"0", "1", "2", "3", "4", "5", "6", "7", "8", "9">>

RECURSIVE Decimal(_)
\* '{0}'.format(n) for an int n >= 0
Decimal(n) ==
    IF n < 10 THEN <<Digits[n + 1]>>
    ELSE Decimal(n \div 10) \o <<Digits[(n % 10) + 1]>>

\* '{0}'.format(value)
Format(value) ==
    CASE value.type = "str" -> value.str
      [] value.type = "int" -> Decimal(value.int)
      [] OTHER -> <<"N", "o", "n", "e">>

\* fd.readline() at offset pos: the characters up to and with the next
\* newline, or up to the end of the file.
ReadLine(content, pos) ==
    LET ends == {i \in pos..Len(content) : content[i] = Newline}
        last == IF ends = {} THEN Len(content)
                ELSE CHOOSE i \in ends : \A j \in ends : i <= j
    IN SubSeq(content, pos, last)

\* strip() also removes the newline.
StripLine(str) ==
    LET isWs(c) == c \in Whitespace \cup {Newline}
        F[i \in 0..Len(str)] ==
            IF i = 0 THEN <<>> ELSE Append(F[i - 1], isWs(str[i]))
        lead == {i \in 1..Len(str) : \A j \in 1..i : isWs(str[j])}
        trail == {i \in 1..Len(str) : \A j \in i..Len(str) : isWs(str[j])}
        lo == Cardinality(lead) + 1
        hi == Len(str) - Cardinality(trail)
    IN IF lo > hi THEN <<>> ELSE SubSeq(str, lo, hi)

\* What authorize() may return: a token of GitHub's alphabet and the id of
\* the authorization, an integer.
MaxTokenLen == 2
TokenChars == {"a", "b"}
GithubTokens == UNION {[1..k -> TokenChars] : k \in 1..MaxTokenLen}
AuthIds == {7, 42}
\* What may be typed at the PivotalTracker prompt.
PromptChars == {"a", Space}
Prompts == UNION {[1..k -> PromptChars] : k \in 0..MaxTokenLen}
MaxTokenCalls == 3

InitTokens ==
    /\ ghFile = NoFile
    /\ ptFile = NoFile
    /\ ghReturned = <<>>
    /\ ptReturned = <<>>
    /\ authorized = <<>>
    /\ prompted = <<>>
    /\ tokenCalls = 0

\* '{0}\n{1}\n'.format(auth.token, auth.id)
GithubCredentials(token, id) ==
    Format(token) \o <<Newline>> \o Format(id) \o <<Newline>>

\* get_github_token(): the pair it returns, the file and the authorizations
\* after the call.
get_github_token ==
    IF ghFile.exists
      THEN LET line1 == ReadLine(ghFile.content, 1)
               line2 == ReadLine(ghFile.content, Len(line1) + 1)
           IN /\ ghReturned' = <<PyStr(StripLine(line1)), PyStr(StripLine(line2))>>
              /\ UNCHANGED <<ghFile, authorized>>
      ELSE \E token \in GithubTokens : \E id \in AuthIds :
              /\ authorized' = Append(authorized, <<PyStr(token), PyInt(id)>>)
              /\ ghFile' = File(GithubCredentials(PyStr(token), PyInt(id)))
              /\ ghReturned' = <<PyStr(token), PyInt(id)>>

\* get_pivotaltracker_token()
get_pivotaltracker_token ==
    IF ptFile.exists
      THEN LET token == StripLine(ReadLine(ptFile.content, 1))
           IN /\ ptReturned' = IF token # <<>> THEN PyStr(token) ELSE PyNone
              /\ UNCHANGED <<ptFile, prompted>>
      ELSE \E typed \in Prompts :
              LET token == StripLine(typed)
              IN /\ prompted' = Append(prompted, typed)
                 /\ ptFile' = IF token # <<>>
                                THEN File(Format(PyStr(token)) \o <<Newline>>)
                                ELSE ptFile
                 /\ ptReturned' = IF token # <<>> THEN PyStr(token) ELSE PyNone

GetGithubToken ==
    /\ tokenCalls < MaxTokenCalls
    /\ tokenCalls' = tokenCalls + 1
    /\ get_github_token
    /\ UNCHANGED <<ptFile, ptReturned, prompted>>

GetPivotalTrackerToken ==
    /\ tokenCalls < MaxTokenCalls
    /\ tokenCalls' = tokenCalls + 1
    /\ get_pivotaltracker_token
    /\ UNCHANGED <<ghFile, ghReturned, authorized>>

NextTokens ==
    \/ GetGithubToken /\ TokenFrame
    \/ GetPivotalTrackerToken /\ TokenFrame

\* ---------------------------------------------------- configure_github_team
\* The organization as far as one team name goes: whether the team exists,
\* whether a repository of that name exists and is public, whether the
\* repository is one of the team's, whether it has the PivotalTracker hook,
\* whether the users were invited.
GithubStates ==
    {g \in [team : BOOLEAN, repo : {"absent", "public", "private"},
            associated : BOOLEAN, hook : BOOLEAN, invited : BOOLEAN] :
        /\ g.associated => (g.team /\ g.repo # "absent")
        /\ g.hook => g.repo # "absent"
        /\ g.invited => g.team}

Things == {"team", "repo", "association", "hook"}
MaxRuns == 2

InitGithub ==
    /\ github \in {g \in GithubStates : ~g.invited}
    /\ ghPc = "idle"
    /\ ghTeam = "unset"
    /\ ghRepo = "unset"
    /\ ghLog = <<>>
    /\ ghFailed = FALSE
    /\ ghExit = "none"
    /\ ghMade = [x \in Things |-> 0]
    /\ ghRuns = 0

IdleGithub ==
    /\ github = [team |-> FALSE, repo |-> "absent", associated |-> FALSE,
                 hook |-> FALSE, invited |-> FALSE]
    /\ ghPc = "idle"
    /\ ghTeam = "unset"
    /\ ghRepo = "unset"
    /\ ghLog = <<>>
    /\ ghFailed = FALSE
    /\ ghExit = "none"
    /\ ghMade = [x \in Things |-> 0]
    /\ ghRuns = 0

\* A creating call: the thing, what there was of it on GitHub when the call
\* was made ("absent", "present", or "public" or "private" for a
\* repository), and whether the call succeeded.
Call(thing, was, ok) == [thing |-> thing, was |-> was, ok |-> ok]

Was(present) == IF present THEN "present" ELSE "absent"

Creating(thing, was, ok) ==
    /\ ghLog' = Append(ghLog, Call(thing, was, ok))
    /\ ghFailed' = (ghFailed \/ ~ok)
    /\ ghMade' = IF ok THEN [ghMade EXCEPT ![thing] = @ + 1] ELSE ghMade

\* The prompt: anything but y, yes or 1 aborts with 1.
GhConfirm ==
    /\ ghPc = "idle"
    /\ ghRuns < MaxRuns
    /\ ghRuns' = ghRuns + 1
    /\ ghTeam' = "unset"
    /\ ghRepo' = "unset"
    /\ ghLog' = <<>>
    /\ ghFailed' = FALSE
    /\ \E answer \in {"y", "n"} :
          IF answer \in {"y", "yes", "1"}
            THEN ghPc' = "token" /\ ghExit' = "running"
            ELSE ghPc' = "idle" /\ ghExit' = "1"
    /\ UNCHANGED <<github, ghMade, tokenVars>>

\* gh_token, _ = get_github_token(); gh = login(token=gh_token); org = ...
GhLogin ==
    /\ ghPc = "token"
    /\ get_github_token
    /\ tokenCalls' = tokenCalls + 1
    /\ ghPc' = "team"
    /\ UNCHANGED <<github, ghTeam, ghRepo, ghLog, ghFailed, ghExit, ghMade,
                   ghRuns, ptFile, ptReturned, prompted>>

\* Fetch or create team
GhTeam ==
    /\ ghPc = "team"
    /\ IF github.team
         THEN /\ ghTeam' = "Team"
              /\ UNCHANGED <<github, ghLog, ghFailed, ghMade>>
         ELSE \E ok \in BOOLEAN :
                 /\ Creating("team", Was(github.team), ok)
                 /\ github' = [github EXCEPT !.team = ok]
                 /\ ghTeam' = IF ok THEN "Team" ELSE "None"
    /\ ghPc' = "repo"
    /\ UNCHANGED <<ghRepo, ghExit, ghRuns, tokenVars>>

\* Mutant: the repository is created without looking for it first.
GhRepo_Unguarded ==
    /\ ghPc = "repo"
    /\ IF ghTeam = "None"
         THEN /\ ghExit' = "AttributeError"
              /\ ghPc' = "idle"
              /\ UNCHANGED <<github, ghRepo, ghLog, ghFailed, ghMade>>
         ELSE /\ \E ok \in (IF github.repo = "absent" THEN BOOLEAN ELSE {FALSE}) :
                    /\ Creating("repo", github.repo, ok)
                    /\ github' = IF ok THEN [github EXCEPT !.repo = "public",
                                                           !.associated = TRUE]
                                       ELSE github
                    /\ ghRepo' = IF ok THEN "Repository" ELSE "None"
              /\ ghPc' = "hook"
              /\ ghExit' = ghExit
    /\ UNCHANGED <<ghTeam, ghRuns, tokenVars>>

\* Fetch or create repository; the search goes through the public
\* repositories only.  create_repo(team_id=team.id) fails on a None team;
\* a created repository is the team's; a found one that is not is added.
GhRepo ==
    /\ ghPc = "repo"
    /\ IF github.repo = "public"
         THEN /\ ghRepo' = "Repository"
              /\ IF ghTeam = "Team" /\ github.associated
                   THEN UNCHANGED <<github, ghLog, ghFailed, ghMade>>
                   ELSE \E ok \in (IF ghTeam = "Team" THEN BOOLEAN ELSE {FALSE}) :
                           /\ Creating("association", Was(github.associated), ok)
                           /\ github' = [github EXCEPT !.associated = @ \/ ok]
              /\ ghPc' = "hook"
              /\ ghExit' = ghExit
         ELSE IF ghTeam = "None"
           THEN /\ ghExit' = "AttributeError"
                /\ ghPc' = "idle"
                /\ UNCHANGED <<github, ghRepo, ghLog, ghFailed, ghMade>>
           ELSE /\ \E ok \in (IF github.repo = "absent" THEN BOOLEAN ELSE {FALSE}) :
                      /\ Creating("repo", github.repo, ok)
                      /\ github' = IF ok THEN [github EXCEPT !.repo = "public",
                                                             !.associated = TRUE]
                                         ELSE github
                      /\ ghRepo' = IF ok THEN "Repository" ELSE "None"
                /\ ghPc' = "hook"
                /\ ghExit' = ghExit
    /\ UNCHANGED <<ghTeam, ghRuns, tokenVars>>

\* Add PT integration hook: with a token, create_hook is called whether or
\* not the repository has the hook; it fails on a None repo.
GhHook ==
    /\ ghPc = "hook"
    /\ get_pivotaltracker_token
    /\ tokenCalls' = tokenCalls + 1
    /\ IF ptReturned' = PyNone
         THEN /\ ghPc' = "invite"
              /\ UNCHANGED <<github, ghLog, ghFailed, ghExit, ghMade>>
         ELSE IF ghRepo = "None"
           THEN /\ ghExit' = "AttributeError"
                /\ ghPc' = "idle"
                /\ UNCHANGED <<github, ghLog, ghFailed, ghMade>>
           ELSE /\ \E ok \in (IF github.hook THEN {FALSE} ELSE BOOLEAN) :
                      /\ Creating("hook", Was(github.hook), ok)
                      /\ github' = [github EXCEPT !.hook = @ \/ ok]
                /\ ghPc' = "invite"
                /\ ghExit' = ghExit
    /\ UNCHANGED <<ghTeam, ghRepo, ghRuns, ghFile, ghReturned, authorized>>

\* for user in user_names: print(team.invite(user)); return 0
GhInvite ==
    /\ ghPc = "invite"
    /\ IF ghTeam = "None"
         THEN /\ ghExit' = "AttributeError"
              /\ UNCHANGED github
         ELSE /\ ghExit' = "0"
              /\ \E ok \in BOOLEAN : github' = [github EXCEPT !.invited = @ \/ ok]
    /\ ghPc' = "idle"
    /\ UNCHANGED <<ghTeam, ghRepo, ghLog, ghFailed, ghMade, ghRuns, tokenVars>>

NextGithub ==
    \/ GhConfirm /\ GithubFrame
    \/ GhLogin /\ GithubFrame
    \/ GhTeam /\ GithubFrame
    \/ GhRepo /\ GithubFrame
    \/ GhHook /\ GithubFrame
    \/ GhInvite /\ GithubFrame

\* ------------------------------------------- cmd_cftemplate_update_all
\* bit_pos = ['memcached', 'puma', 'multi']
bit_pos == <<"memcached", "puma", "multi">>

\* Python truthiness of a returned value (if retval:)
PyTruthy(value) ==
    CASE value.type = "NoneType" -> FALSE
      [] value.type = "int" -> value.int # 0
      [] value.type = "str" -> value.str # <<>>

\* What generate_stack may return: the caller only tests its truth.
GenerateStackReturns == {PyNone, PyInt(0), PyInt(1), PyStr(<<"e">>)}

NotReturned == [type |-> "unset"]

\* Mutant: the mask is 2 ** (bit + 1).
BitOf_OffByOne(n, bit) == (n \div (2 ^ (bit + 1))) % 2 = 1

\* bool(i & 2 ** bit), bit counted from 0 as enumerate does
BitOf(n, bit) == (n \div (2 ^ bit)) % 2 = 1

\* kwargs = {'app_ami': None}; kwargs[argument] = bool(i & 2 ** bit)
kwargs(n) ==
    [app_ami |-> PyNone,
     memcached |-> BitOf(n, 0), puma |-> BitOf(n, 1), multi |-> BitOf(n, 2)]

IdleUpdateAll ==
    /\ updPc = "idle"
    /\ noTest = FALSE
    /\ updI = 0
    /\ updMade = 0
    /\ updCalls = <<>>
    /\ updResult = NotReturned

\* cmd_cftemplate_update_all(args): enter the loop
cmd_cftemplate_update_all ==
    /\ updPc \in {"idle", "done"}
    /\ noTest' \in BOOLEAN
    /\ updI' = 0
    /\ updMade' = 0
    /\ updCalls' = <<>>
    /\ updResult' = NotReturned
    /\ updPc' = "for"

\* One iteration: build kwargs, construct a CFTemplate, call generate_stack
\* on it and return its result when it is true.
UpdateAllIteration ==
    /\ updPc = "for"
    /\ updI < 2 ^ Len(bit_pos)
    /\ updMade' = updMade + 1
    /\ \E retval \in GenerateStackReturns :
          /\ updCalls' = Append(updCalls,
                [cf |-> updMade', test |-> ~noTest, kwargs |-> kwargs(updI),
                 retval |-> retval])
          /\ IF PyTruthy(retval)
               THEN /\ updResult' = retval
                    /\ updPc' = "done"
                    /\ UNCHANGED updI
               ELSE /\ updI' = updI + 1
                    /\ UNCHANGED <<updResult, updPc>>
    /\ UNCHANGED noTest

\* return 0
UpdateAllReturn ==
    /\ updPc = "for"
    /\ updI = 2 ^ Len(bit_pos)
    /\ updResult' = PyInt(0)
    /\ updPc' = "done"
    /\ UNCHANGED <<noTest, updI, updMade, updCalls>>

NextUpdateAll ==
    \/ cmd_cftemplate_update_all /\ UpdateAllFrame
    \/ UpdateAllIteration /\ UpdateAllFrame
    \/ UpdateAllReturn /\ UpdateAllFrame

\* ------------------------------------------------------------ claims: AWS
Finished(operation) == pc = "idle" /\ cmd = operation /\ exit # "none"

Issued(operation) == \E i \in 1..Len(trace) : trace[i][1] = operation

IsPrefix(s, t) == Len(s) <= Len(t) /\ \A i \in 1..Len(s) : s[i] = t[i]

\* C1 (as claimed): a call answered with another status than 200 prints the
\* error message and makes AWS.op return False, and the operation goes on or
\* returns; no run of an AWS operation ends by an unhandled exception.
C1_FailedCallIsHandled ==
    /\ ret = "False" => printed = "Error.Message"
    /\ exit \in {"none", "running", "0", "None"}

\* C3: on a team configured before, every step of a later configure run
\* leaves the account and the .pem files as they are, and the run issues no
\* CreateLoginProfile, CreateAccessKey or CreateKeyPair and writes no .pem.
C3_ConfigureAgainChangesNothing ==
    /\ [][(cmd = "configure" /\ fromConfigured /\ pc # "idle")
             => (acct' = acct /\ pemFiles' = pemFiles)]_vars
    /\ []((cmd = "configure" /\ fromConfigured)
             => /\ ~Issued("CreateLoginProfile")
                /\ ~Issued("CreateAccessKey")
                /\ ~Issued("CreateKeyPair")
                /\ ~wrotePem)

FullyConfigured(t) ==
    /\ acct.group /\ acct.groupPolicy
    /\ t \in acct.users /\ t \in acct.logins /\ t \in acct.members
    /\ KeysOf(acct, t) = {<<t, KeyIds[1]>>}
    /\ t \in acct.userPolicies /\ t \in acct.keyPairs /\ t \in acct.sgs
    /\ \A r \in Rules : <<t, r>> \in acct.rules

\* A second configure run has ended, answered by the account's state, on a
\* team the first run provisioned in full.
C3_Witness ==
    /\ Finished("configure") /\ fromConfigured /\ ~faulted
    /\ FullyConfigured(team) /\ team \in pemFiles
    /\ Len(trace) = 10

NothingLeft(t) ==
    /\ t \notin acct.logins /\ t \notin acct.userPolicies
    /\ KeysOf(acct, t) = {} /\ t \notin acct.members
    /\ t \notin acct.users /\ t \notin acct.keyPairs /\ t \notin acct.sgs
    /\ \A r \in Rules : <<t, r>> \notin acct.rules

Position(operation) ==
    CHOOSE i \in 1..Len(trace) : trace[i][1] = operation

\* C4: a purge run answered by the account's state leaves no login profile,
\* user policy, access key, membership, user, key pair or security group of
\* the team; and DeleteUser is issued only after DeleteLoginProfile,
\* DeleteUserPolicy, the DeleteAccessKey of every listed key and
\* RemoveUserFromGroup.
C4_PurgeRemovesEverything ==
    /\ (Finished("purge") /\ ~faulted) => NothingLeft(team)
    /\ (cmd = "purge" /\ Issued("DeleteUser")) =>
          /\ keysLeft = <<>>
          /\ \A o \in {"DeleteLoginProfile", "DeleteUserPolicy",
                       "ListAccessKeys", "RemoveUserFromGroup"} :
                Issued(o) /\ Position(o) < Position("DeleteUser")
          /\ \A i \in 1..Len(trace) :
                trace[i][1] = "DeleteAccessKey" => i < Position("DeleteUser")

\* A purge of a team that configure had provisioned in full has ended, every
\* one of its calls answered 200 (so each resource was there to delete).
C4_Witness ==
    /\ Finished("purge") /\ fromConfigured /\ ~failed
    /\ Issued("DeleteAccessKey") /\ Issued("DeleteUser")
    /\ NothingLeft(team)

\* The names of the stacks DeleteStack was issued for, in order.
DeletedStacks ==
    LET d == SelectSeq(trace, LAMBDA e : e[1] = "DeleteStack")
    IN [i \in 1..Len(d) |-> d[i][2]]

\* The listed stacks that are not DELETE_COMPLETE and were created strictly
\* more than eight hours before the start, in order.
OldStacks ==
    LET q == SelectSeq(stacks, LAMBDA st :
                 st.StackStatus # "DELETE_COMPLETE"
                 /\ st.CreationTime + Hours8 < now)
    IN [i \in 1..Len(q) |-> q[i].StackName]

\* C5: when cleanup ends, DeleteStack was issued exactly once for each listed
\* stack that is not DELETE_COMPLETE and older than eight hours, and for no
\* other stack; until then it was issued for a prefix of them.
C5_CleanupDeletesOldStacks ==
    cmd = "cleanup" =>
        /\ IsPrefix(DeletedStacks, OldStacks)
        /\ Finished("cleanup") /\ exit = "None" => DeletedStacks = OldStacks

\* cleanup has ended on a list with a stack aged exactly eight hours, which
\* it kept, and an older one whose DeleteStack failed.
C5_Witness ==
    /\ Finished("cleanup") /\ exit = "None"
    /\ Len(stacks) = 2
    /\ \E i \in 1..2 : /\ stacks[i].StackStatus # "DELETE_COMPLETE"
                       /\ now - stacks[i].CreationTime = Hours8
    /\ Len(DeletedStacks) = 1
    /\ ret = "False"

ExpectedCalls(c) ==
    <<  <<"CreateGroup", NoArg>>, <<"PutGroupPolicy", NoArg>>,
        <<"CreateUser", NoArg>> >>
    \o (IF c THEN << <<"CreateLoginProfile", NoArg>>,
                     <<"CreateAccessKey", NoArg>>,
                     <<"CreateKeyPair", NoArg>> >>
             ELSE <<>>)
    \o << <<"AddUserToGroup", NoArg>>, <<"CreateSecurityGroup", NoArg>>,
          <<"AuthorizeSecurityGroupIngress", "tcp/22">>,
          <<"AuthorizeSecurityGroupIngress", "tcp/80">>,
          <<"AuthorizeSecurityGroupIngress", "tcp/443">>,
          <<"AuthorizeSecurityGroupIngress", "all/self">>,
          <<"PutUserPolicy", NoArg>> >>

\* C10: the calls of a configure run are, whatever they answer, a prefix of
\* the fixed sequence, and the whole of it when the run returns; the three
\* creations after CreateUser are in it exactly when CreateUser succeeded.
C10_ConfigureFixedSequence ==
    cmd = "configure" =>
        /\ IsPrefix(trace, ExpectedCalls(created))
        /\ Finished("configure") => trace = ExpectedCalls(created)
        /\ created => Issued("CreateUser")

\* A configure run has returned in which CreateUser succeeded and later calls
\* failed, the last one included.
C10_Witness ==
    /\ Finished("configure") /\ created /\ faulted
    /\ team \notin acct.members
    /\ ret = "False"

\* ------------------------------------------- claims: clean_team_names
NamesOf(x) ==
    IF x.kind = "list" THEN {x.v[i] : i \in 1..Len(x.v)}
    ELSE IF x.kind = "str" THEN {x.v} ELSE {}

HasSpace(str) == \E i \in 1..Len(str) : str[i] = Space

\* out is inp without its surrounding whitespace, each remaining space turned
\* into a hyphen and every other character kept.
CleanedFrom(inp, out) ==
    \E lo \in 1..(Len(inp) + 1) : \E hi \in 0..Len(inp) :
        /\ \A i \in 1..(lo - 1) : inp[i] \in Whitespace
        /\ \A i \in (hi + 1)..Len(inp) : inp[i] \in Whitespace
        /\ Len(out) = hi - lo + 1
        /\ Len(out) > 0 => out[1] \notin Whitespace /\ out[Len(out)] \notin Whitespace
        /\ \A i \in 1..Len(out) :
              out[i] = IF inp[lo + i - 1] = Space THEN Hyphen ELSE inp[lo + i - 1]

\* C9: after clean_team_names no team name holds a space; a list keeps its
\* length and order, each name being its input stripped with the spaces
\* turned into hyphens; a second call changes nothing; an empty or missing
\* TEAM is left as it is.
C9_CleanTeamNames ==
    cleanCalls >= 1 =>
        /\ \A str \in NamesOf(teamArg) : ~HasSpace(str)
        /\ teamArg.kind = teamIn.kind
        /\ teamIn.kind = "list" =>
              /\ Len(teamArg.v) = Len(teamIn.v)
              /\ \A i \in 1..Len(teamIn.v) : CleanedFrom(teamIn.v[i], teamArg.v[i])
        /\ teamIn.kind = "str" /\ teamIn.v # <<>> => CleanedFrom(teamIn.v, teamArg.v)
        /\ ~Truthy(teamIn) => teamArg = teamIn
        /\ cleanCalls >= 2 => teamArg = teamPrev

\* A list of two names, one with a space inside and whitespace around it,
\* has been cleaned twice.
C9_Witness ==
    /\ cleanCalls = 2
    /\ teamIn = List(<< <<"a">>, <<Tab, "a", Space, "a">> >>)
    /\ teamArg = List(<< <<"a">>, <<"a", Hyphen, "a">> >>)

\* ------------------------------------------------------------ claims: main
\* C2: with one sub-command key true, main calls that command's handler once
\* and no other, and returns what it returned, in whatever order the table
\* is gone through; with none true it raises 'Invalid state' and calls no
\* handler.
C2_Dispatch ==
    /\ \A i \in 1..Len(invoked) : invoked[i] \in args
    /\ Len(invoked) <= 1
    /\ mainPc = "done" =>
          /\ \A c \in Commands :
                args = {c} => /\ invoked = <<c>>
                              /\ mainResult = handlerRet
                              /\ handlerRet \in HandlerReturns(c)
          /\ args = {} => /\ invoked = <<>>
                          /\ mainResult = "Exception: Invalid state"

\* main has returned the result of the one handler it called after going
\* through other commands first.
C2_Witness ==
    /\ mainPc = "done"
    /\ args = {"gh"}
    /\ invoked = <<"gh">>
    /\ mainResult = "1"
    /\ Cardinality(visited) > 3

\* ------------------------------------------------------ claims: CFTemplate
CommonParameters == {"AppInstanceType", "Branch", "TeamName"}

UrlOf(resource, attribute) ==
    [FnJoin |-> <<"", <<"http://", [FnGetAtt |-> <<resource, attribute>>]>> >>]

\* C6: every generated document has exactly the parameters of its flags
\* (three, and AppInstances and DBInstanceType as well when multi), has the
\* Mappings section exactly when multi, and has the one output URL, which
\* refers to LoadBalancer.DNSName when multi and to AppServer.PublicDnsName
\* otherwise.
C6_DocumentedContents ==
    \A i \in 1..Len(docs) :
        LET d == docs[i].document IN
        /\ DOMAIN d.Parameters =
              IF docs[i].multi
                THEN CommonParameters \cup {"AppInstances", "DBInstanceType"}
                ELSE CommonParameters
        /\ ("Mappings" \in DOMAIN d) <=> docs[i].multi
        /\ DOMAIN d.Outputs = {"URL"}
        /\ d.Outputs["URL"].Value =
              IF docs[i].multi THEN UrlOf("LoadBalancer", "DNSName")
                               ELSE UrlOf("AppServer", "PublicDnsName")

\* A multi-instance document without memcached was generated after a
\* single-instance one with memcached.
C6_Witness ==
    /\ Len(docs) = 2
    /\ ~docs[1].multi /\ docs[1].memcached
    /\ docs[2].multi /\ ~docs[2].memcached /\ docs[2].passenger
    /\ "DBInstanceType" \in DOMAIN docs[2].document.Parameters

\* ---------------------------------------------------- claims: token caches
\* C8 (as claimed): once authorize has been called and the credential file
\* written, authorize is not called again and every call returns the token
\* and the authorization id GitHub gave; once a PivotalTracker token is
\* stored every call returns it without a new prompt; an empty token is not
\* written and None is returned for it.
C8_TokensRoundTrip ==
    /\ Len(authorized) <= 1
    /\ (authorized # <<>> /\ ghReturned # <<>>) => ghReturned = authorized[1]
    /\ ptFile.exists =>
          /\ ptFile.content # <<Newline>>
          /\ prompted # <<>>
          /\ ptReturned = PyStr(StripLine(prompted[Len(prompted)]))
    /\ (~ptFile.exists /\ ptReturned # <<>>) => ptReturned = PyNone

\* ------------------------------------------- claims: configure_github_team
Guarded(thing) ==
    \A i \in 1..Len(ghLog) : ghLog[i].thing = thing => ghLog[i].was = "absent"

AtMostOnce == \A x \in Things : ghMade[x] <= 1

Provisioned(t) ==
    /\ t \in acct.users /\ t \in acct.logins /\ KeysOf(acct, t) # {}
    /\ t \in acct.keyPairs /\ t \in acct.members
    /\ t \in acct.sgs /\ (\A r \in Rules : <<t, r>> \in acct.rules)
    /\ t \in acct.userPolicies

\* What configure sets up outside the block guarded by CreateUser.
Repaired(t) ==
    /\ acct.group /\ acct.groupPolicy
    /\ t \in acct.users /\ t \in acct.members
    /\ t \in acct.sgs /\ (\A r \in Rules : <<t, r>> \in acct.rules)
    /\ t \in acct.userPolicies

\* C12 (as claimed): a configure run that AWS answers according to the
\* account's state ends with the team fully provisioned, whatever calls of
\* earlier configure runs failed.
C12_RerunRepairs ==
    (Finished("configure") /\ ~faulted) => Provisioned(team)

\* C12 (amended): a configure run that AWS answers according to the
\* account's state ends with the course group and its policy, the user, its
\* group membership, its security group with the four ingress rules and its
\* user policy, and also with the login profile, an access key and the key
\* pair when its own CreateUser call succeeded; no step of a configure run
\* whose CreateUser call did not succeed adds a login profile, an access key
\* or a key pair.
C12_RerunRepairsOutsideCreateUser ==
    /\ []((Finished("configure") /\ ~faulted)
             => /\ Repaired(team)
                /\ created => Provisioned(team))
    /\ [][(cmd = "configure" /\ ~created')
             => /\ acct'.logins = acct.logins
                /\ acct'.keys = acct.keys
                /\ acct'.keyPairs = acct.keyPairs
                /\ pemFiles' = pemFiles]_vars

\* A configure run answered by the account's state has ended on a team whose
\* user an earlier run created without its login profile: everything is there
\* but the login profile.
C12_Witness ==
    /\ Finished("configure") /\ ~faulted /\ ~created
    /\ Repaired(team)
    /\ team \notin acct.logins
    /\ KeysOf(acct, team) # {} /\ team \in acct.keyPairs

\* ------------------------------------- claims: cmd_cftemplate_update_all
FlagsOf(call) ==
    <<call.kwargs.memcached, call.kwargs.puma, call.kwargs.multi>>

AllFalsy == \A j \in 1..Len(updCalls) : ~PyTruthy(updCalls[j].retval)

\* C11: every generate_stack call has app_ami None and is made on a
\* CFTemplate constructed for it, on which no other call is made; no flag
\* combination is passed twice; a call that returns a true value is the last
\* one and its value is what the command returns; and when the command has
\* returned without any true value, it has made exactly 8 calls, one for each
\* of the 8 assignments of booleans to (memcached, puma, multi), and has
\* returned 0.
C11_UpdateAllCoversEveryCombination ==
    /\ \A j \in 1..Len(updCalls) :
          /\ updCalls[j].kwargs.app_ami = PyNone
          /\ DOMAIN updCalls[j].kwargs =
                {"app_ami", "memcached", "puma", "multi"}
          /\ updCalls[j].cf = updMade - (Len(updCalls) - j)
          /\ updCalls[j].test = ~noTest
          /\ \A k \in 1..Len(updCalls) :
                k # j => /\ updCalls[k].cf # updCalls[j].cf
                         /\ FlagsOf(updCalls[k]) # FlagsOf(updCalls[j])
          /\ PyTruthy(updCalls[j].retval) =>
                /\ j = Len(updCalls)
                /\ updPc = "done"
                /\ updResult = updCalls[j].retval
    /\ updMade = Len(updCalls)
    /\ (updPc = "done" /\ AllFalsy) =>
          /\ Len(updCalls) = 8
          /\ {FlagsOf(updCalls[j]) : j \in 1..Len(updCalls)} =
                BOOLEAN \X BOOLEAN \X BOOLEAN
          /\ updResult = PyInt(0)

\* The command went through all eight combinations and returned 0; the
\* sixth call had puma false and the other two flags true.
C11_Witness ==
    /\ updPc = "done"
    /\ AllFalsy
    /\ Len(updCalls) = 8
    /\ updResult = PyInt(0)
    /\ FlagsOf(updCalls[6]) = <<TRUE, FALSE, TRUE>>

\* The third call returned a true value and the command stopped there.
C11_WitnessStopped ==
    /\ updPc = "done"
    /\ Len(updCalls) = 3
    /\ updResult = PyInt(1)

\* --------------------------------------------- claims: template isolation
\* The document generate prints in a process that has done nothing else but
\* construct the instance, by the instance's flag, followed by what the
\* calls from outside generate add.
ExpectedDocument(multi, added) ==
    LET alone == [made |-> TRUE, ami |-> DEFAULT_AMI, memcached |-> FALSE,
                  multi |-> multi, passenger |-> FALSE,
                  template |-> InitialTEMPLATE]
        g == generate(alone)
        p == IF "Parameters" \in added
               THEN add_parameter(g, "Extra", "String", "None", "x", "None",
                                  "None", "None", "None")
               ELSE g
        o == IF "Outputs" \in added
               THEN add_output(p, "Extra", "An output.", "x")
               ELSE p
    IN [k \in DOMAIN o.template |->
          IF k = "Mappings" THEN [Teams |-> InitialTEAM_MAP]
                            ELSE o.template[k]]

\* C13: whatever instances were constructed and whatever was added to and
\* generated from them, CFTemplate.TEMPLATE still has its format version and
\* empty Outputs, Parameters and Resources, CFTemplate.TEAM_MAP and AWS.POLICY
\* are as they were defined, and every document printed is the one its
\* instance's multi flag and the calls made on that very instance give,
\* whatever was generated before it.
C13_TemplatesIsolated ==
    /\ Local(heap, TEMPLATE) = InitialTEMPLATE
    /\ heap[TEAM_MAP] = InitialTEAM_MAP
    /\ heap[POLICY] = InitialPOLICY
    /\ \A i \in 1..Len(docs) :
          docs[i].document = ExpectedDocument(docs[i].multi, docs[i].own)

\* A first instance printed a multi-instance document with a parameter
\* added from outside, then a second instance printed a single-instance
\* document.
C13_Witness ==
    /\ Len(docs) = 2
    /\ Cardinality(DOMAIN own) = 2
    /\ docs[1].multi /\ docs[1].own = {"Parameters"}
    /\ ~docs[2].multi /\ docs[2].own = {}
    /\ "Extra" \in DOMAIN docs[1].document.Parameters
    /\ DOMAIN docs[2].document.Parameters = CommonParameters
    /\ "Mappings" \notin DOMAIN docs[2].document

\* --------------------------------------------------------- specifications
Init ==
    /\ InitAWS /\ IdleNames /\ IdleMain /\ InitTemplate /\ InitTokens
    /\ IdleGithub /\ IdleUpdateAll

\* AWS.configure and AWS.purge
SpecProvision == Init /\ [][NextProvision]_vars

\* AWS.configure, run any number of times
SpecConfigure == Init /\ [][NextConfigure]_vars

\* AWS.cleanup, AWS.list_security_groups and AWS.verify_template
SpecStacks == Init /\ [][NextStacks]_vars

\* The five AWS operations
SpecAWS == Init /\ [][NextAWS]_vars

\* clean_team_names on every args['TEAM'] within the bounds
InitWithNames ==
    /\ InitAWS /\ InitNames /\ IdleMain /\ InitTemplate /\ InitTokens
    /\ IdleGithub /\ IdleUpdateAll

SpecNames == InitWithNames /\ [][NextNames]_vars

\* main of scalable_admin
SpecMain == Init /\ [][NextMain]_vars

\* CFTemplate
SpecTemplate == Init /\ [][NextTemplate]_vars

\* CFTemplate, its add_parameter and add_output called from outside too
SpecTemplateCalls == Init /\ [][NextTemplateCalls]_vars

\* get_github_token and get_pivotaltracker_token
SpecTokens == Init /\ [][NextTokens]_vars

InitWithGithub ==
    /\ InitAWS /\ IdleNames /\ IdleMain /\ InitTemplate /\ InitTokens
    /\ InitGithub /\ IdleUpdateAll

\* configure_github_team, with the token caches it reads
SpecGithub == InitWithGithub /\ [][NextGithub]_vars

\* cmd_cftemplate_update_all
SpecUpdateAll == Init /\ [][NextUpdateAll]_vars

====
